---- MODULE Spec2Model ----
(***************************************************************************)
(* A model of src/src/main.rs: a plucked-string synthesizer.  A MIDI       *)
(* callback (the event thread) writes four shared f64 cells; an audio      *)
(* callback (the render thread) reads two of them once per graph copy and  *)
(* sample and renders a feedback delay loop excited by an ADSR envelope.   *)
(*                                                                         *)
(* Numbers.  An f64 is modelled in fixed point: the integer x stands for   *)
(* x / One.  Times are integers in microseconds.                           *)
(***************************************************************************)
EXTENDS Integers, Sequences, FiniteSets

\* ------------------------------------------------------------------ bounds

\* Events the MIDI device delivers in one behaviour of Spec.
MaxEvents == 2
\* Samples the audio device asks for in one behaviour of Spec.
MaxTicks == 2
\* The sample rate the audio device negotiates (config.sample_rate), in Hz.
SampleRate == 500
\* Samples rendered in each of the two runs of SpecRuns.
RunTicks == 4
\* Messages delivered in each of the two runs of SpecRuns.
RunEvents == 2
\* Samples rendered in one behaviour of SpecString.
StringTicks == 10
\* Messages delivered in one behaviour of SpecString.
StringEvents == 2
\* The most channels of a device of SpecDevice.
MaxChannels == 3
\* The most slots of the buffer the audio callback of SpecDevice is given.
MaxSlots == 6

\* ------------------------------------------------------- fixed-point values

\* The f64 1.0.
One == 10000

\* The f64 0.0 the cells pitch, volume and control start with.
Zero == 0

RECURSIVE Pow2(_)
Pow2(n) == IF n <= 0 THEN 1 ELSE 2 * Pow2(n - 1)

\* 440 * 2^(r/12) for r = 0..11, times One.
SemitoneHz ==
    << 4400000, 4661638, 4938833, 5232511, 5543653, 5873295,
       6222540, 6592551, 6984565, 7399888, 7839909, 8306094 >>

\* fundsp's midi_hz(x) = 440 * 2^((x - 69) / 12), as called at lines 154 and 160.
MidiHz(note) ==
    LET k == note - 69
        q == k \div 12
        r == k % 12
    IN  IF q >= 0 THEN SemitoneHz[r + 1] * Pow2(q)
                  ELSE SemitoneHz[r + 1] \div Pow2(0 - q)

\* Mutant of VelocityToVolume: the division forgotten.
VelocityToVolumeRaw(velocity) == velocity * One

\* velocity as f64 / 127.0
VelocityToVolume(velocity) == (velocity * One) \div 127

\* Mutant of PitchBendFactor: a linear factor bend / 8192.
PitchBendFactorLinear(bend) == (bend * One) \div 8192

\* 2^(((bend - 8192) / 8192) / 12), by the series of e^y with
\* y = ln 2 * (bend - 8192) / (8192 * 12); ln 2 = 0.6931.
PitchBendFactor(bend) ==
    LET y == ((bend - 8192) * 6931) \div (8192 * 12)
    IN  One + y + ((y * y) \div (2 * One)) + ((y * y * y) \div (6 * One * One))

\* --------------------------------------------------------- string constants

\* static TENSION = 48.86 N, in units of 0.01 N.
TENSION == 4886
\* static LINEAR_DENSITY = 0.000477 kg/m, in units of 0.000001 kg/m.
LINEAR_DENSITY == 477
\* static STRING_LENGTH = 0.64 m, in units of 0.01 m.
STRING_LENGTH == 64
\* The number of copies of the pluck graph in `sound`: pluck itself and the
\* pluck.clone() of harmonic_2 .. harmonic_6.
PluckCopies == 6

\* ------------------------------------------------------------------- state

VARIABLES
    proc,           \* "running" | "exited": the process
    mainPc,         \* where the main thread is: "run_output" | "run_input" | "wait_enter" | "done"
    synthPc,        \* the thread run_synth spawns: "none" | "create" | "build" | "play" | "playing" | "panicked"
    handler,        \* the midir callback: "closed" | "open" | "dead"
    epc,            \* where the callback is inside one message
    msg,            \* the message the callback is handling
    pitch, volume, pitch_bend, control,     \* the four Shared<f64> cells
    rpc,            \* where next_value() is: [copy |-> 1..PluckCopies, at |-> "volume" | "control"]
    vol_in,         \* the volume the current copy's var(&volume) has read
    ticks,          \* samples rendered so far; the envelopes' time t is ticks / SampleRate
    attack_start, release_start,  \* adsr_live's two Shared cells, in microseconds (-1: unset)
    buffer, di, value,            \* per copy: Delay's buffer and index, Feedback2's value
    bp_active,      \* per copy: whether the band-pass filter has ever had a non-zero input
    acc,            \* the sum of the copies' outputs so far in this sample
    sample,         \* the last value get_stereo() returned (both channels carry it)
    nEvents,        \* history (Spec only): messages delivered so far (the number of the current message)
    lastOn,         \* history: note of the last fully processed Note-On, -1 if none
    offSince,       \* history: a Note-Off for lastOn was fully processed since that Note-On
    doneKind,       \* history (Spec only): the kind of the last fully processed message
    volBy, ctlBy,   \* history: the number of the message that last wrote volume, control (0: none)
    volNew,         \* history: the last write of volume put another value there
    volReadBy,      \* history: volBy when the current copy read volume
    volReadNew,     \* history: volNew when the current copy read volume
    onUnread,       \* history: control holds a Note-On's 1.0 that no render read has seen yet
    gateLost,       \* history: the last Note-On's 1.0 was overwritten by its Note-Off unread
    seenOnLost,     \* history: a render read saw control > 0 while gateLost
    seenVolume,     \* history: a render read saw volume > 0
    tickDone,       \* history: the messages fully processed when the current sample began
    tornNow,        \* history: the messages this sample has read a torn (volume, control) of
    tornOnce,       \* history: the messages some sample read a torn pair of
    tornTwice,      \* history: the messages two or more samples read a torn pair of
    tornLate,       \* history: a sample that began after a message returned read a torn pair of it
    pass,           \* SpecRuns: 1 in the first run of the pipeline, 2 in the second
    sched1, sched2, \* history: the messages each run was given, with the sample they came before
    stream1, stream2, \* history: the samples each run has returned from get_stereo()
    excite,         \* history (SpecString): the impulse of each sample, in the pluck itself
    dev,            \* SpecDevice: STRING_LENGTH and the device's config: [length, rate, channels, format]
    devPc,          \* SpecDevice: "new" | "built" | "streaming" | "writing" | "returned"
    devN,           \* SpecDevice: the length of the delay line constructed (0: none yet)
    output,         \* SpecDevice: the buffer write_data fills
    wpos,           \* SpecDevice: the slot the next frame of write_data begins at
    calls           \* SpecDevice: the calls of next_sample write_data has made

storeVars == << pitch, volume, pitch_bend, control >>
threadVars == << proc, mainPc, synthPc, handler >>
eventVars == << epc, msg >>
renderVars == << rpc, vol_in, ticks, attack_start, release_start, buffer, di, value,
                 bp_active, acc, sample >>
histVars == << lastOn, offSince >>
writeVars == << volBy, volNew, ctlBy, onUnread, gateLost >>
readVars == << volReadBy, volReadNew, seenOnLost, seenVolume, tickDone, tornNow, tornOnce, tornTwice, tornLate >>
runVars == << pass, sched1, sched2, stream1, stream2, excite >>
devVars == << dev, devPc, devN, output, wpos, calls >>
progVars == << threadVars, eventVars, storeVars, renderVars, nEvents, doneKind, histVars, writeVars,
              readVars, runVars >>
vars == << threadVars, eventVars, storeVars, renderVars, nEvents, doneKind, histVars, writeVars,
          readVars, runVars, devVars >>

\* ----------------------------------------------------------------- messages

NoMsg == [kind |-> "None", a |-> 0, b |-> 0]
NoteOn(note, velocity) == [kind |-> "NoteOn", a |-> note, b |-> velocity]
NoteOff(note, velocity) == [kind |-> "NoteOff", a |-> note, b |-> velocity]
PitchBend(bend) == [kind |-> "PitchBend", a |-> bend, b |-> 0]
\* A channel-voice message of another kind (ControlChange, ProgramChange, ...).
OtherVoice == [kind |-> "OtherVoice", a |-> 0, b |-> 0]
\* A message that is no channel-voice message (SystemRealTime, SystemCommon, ...).
NonVoice == [kind |-> "NonVoice", a |-> 0, b |-> 0]
\* Bytes MidiMsg::from_midi returns Err for (a truncated message, a lone data byte).
Unparseable == [kind |-> "Unparseable", a |-> 0, b |-> 0]

\* The messages the device delivers in Spec.
Notes == {69, 72}
Messages ==
    {NoteOn(n, 127) : n \in Notes}
        \cup {NoteOn(69, 0)}
        \cup {NoteOff(n, 64) : n \in Notes}
        \cup {PitchBend(16383), OtherVoice, NonVoice}

\* The messages the device delivers in SpecEvents: Note-Ons with every note
\* and every velocity (note n with velocity n, and the ends of both ranges
\* with notes 57 and 69), Note-Offs that match and that do not, with two
\* velocities, bends at both ends and the centre, and both ignored kinds.
WideBends == {0, 8192, 16383}
WideMessages ==
    {NoteOn(n, n) : n \in 0 .. 127}
        \cup {NoteOn(n, v) : n \in {0, 57, 69, 127}, v \in {0, 127}}
        \cup {NoteOff(n, v) : n \in {57, 69, 70}, v \in {0, 64}}
        \cup {PitchBend(b) : b \in WideBends}
        \cup {OtherVoice, NonVoice}

\* ---------------------------------------------------------------- waveguide

RECURSIVE IsqrtFrom(_, _)
IsqrtFrom(n, r) == IF (r + 1) * (r + 1) > n THEN r ELSE IsqrtFrom(n, r + 1)

\* sqrt(TENSION / LINEAR_DENSITY) in units of 0.01 m/s:
\* sqrt(10^4 * (T * 10^-2) / (d * 10^-6)) = sqrt(T * 10^8 / d).
Velocity == IsqrtFrom(((TENSION * 10000) \div LINEAR_DENSITY) * 10000, 32000)

\* 2.0 * length / velocity, in microseconds, for a string of `length` (in
\* units of 0.01 m).
WaveguideLengthOf(length) == (2 * length * 1000000) \div Velocity

\* waveguide_length = 2.0 * STRING_LENGTH / velocity, in microseconds.
WaveguideLength == WaveguideLengthOf(STRING_LENGTH)

\* round(length * sample_rate) of Delay's reset, for a delay of `len`
\* microseconds.
RoundSamples(len, rate) == (len * rate + 500000) \div 1000000

\* Delay's buffer length after reset(Some(sample_rate)): the delay time rounded
\* to the nearest sample, at least one sample.
DelayLength(len, rate) ==
    IF RoundSamples(len, rate) < 1 THEN 1 ELSE RoundSamples(len, rate)

\* 1 / sample_rate, in microseconds.
SampleDuration == 1000000 \div SampleRate

\* Mutant of DelaySamples: the delay line retuned to the pitch held, one period
\* of it in samples, once a note has set it.
DelaySamplesRetuned ==
    LET n == (WaveguideLength * SampleRate + 500000) \div 1000000
        p == IF pitch = Zero THEN n ELSE ((One * SampleRate) + (pitch \div 2)) \div pitch
    IN  IF p < 1 THEN 1 ELSE p

\* The length of the delay lines of `sound` after line 222.
DelaySamples == DelayLength(WaveguideLength, SampleRate)

Copies == 1 .. PluckCopies

\* -------------------------------------------------------------------- Init

\* The mark of a slot of the output buffer write_data has not written.
Stale == 0 - 99999

\* The device and the string main runs with, no audio callback made yet.
InitNoDevice ==
    /\ dev = [length |-> STRING_LENGTH, rate |-> SampleRate, channels |-> 2, format |-> "F32"]
    /\ devPc = "new"
    /\ devN = 0
    /\ output = << >>
    /\ wpos = 1
    /\ calls = 0

InitPitch == Zero
InitVolume == Zero
InitPitchBend == One
InitControl == Zero

\* The state after lines 25-32 of main: the MIDI port is chosen and the four
\* cells exist.  (No MIDI device: main has returned Err before this point.)
InitProgram ==
    /\ proc = "running"
    /\ mainPc = "run_output"
    /\ synthPc = "none"
    /\ handler = "closed"
    /\ epc = "idle"
    /\ msg = NoMsg
    /\ pitch = InitPitch
    /\ volume = InitVolume
    /\ pitch_bend = InitPitchBend
    /\ control = InitControl
    /\ rpc = [copy |-> 1, at |-> "volume"]
    /\ vol_in = 0
    /\ ticks = 0
    /\ attack_start = 0
    /\ release_start = -1
    /\ buffer = [c \in Copies |-> << >>]
    /\ di = [c \in Copies |-> 1]
    /\ value = [c \in Copies |-> 0]
    /\ bp_active = [c \in Copies |-> FALSE]
    /\ acc = [dry |-> 0, wet |-> FALSE]
    /\ sample = [dry |-> 0, wet |-> FALSE]
    /\ nEvents = 0
    /\ lastOn = -1
    /\ offSince = FALSE
    /\ doneKind = "None"
    /\ volBy = 0
    /\ ctlBy = 0
    /\ volNew = FALSE
    /\ volReadBy = 0
    /\ volReadNew = FALSE
    /\ onUnread = FALSE
    /\ gateLost = FALSE
    /\ seenOnLost = FALSE
    /\ seenVolume = FALSE
    /\ tickDone = 0
    /\ tornNow = {}
    /\ tornOnce = {}
    /\ tornTwice = {}
    /\ tornLate = FALSE
    /\ pass = 1
    /\ sched1 = << >> /\ sched2 = << >>
    /\ stream1 = << >> /\ stream2 = << >>
    /\ excite = << >>

\* The state after lines 25-32 of main, with the device main will find.
Init == InitProgram /\ InitNoDevice

\* ------------------------------------------------------------- main thread

\* run_output up to the call of run_synth: no default output device (expect),
\* no default config (unwrap) or an unsupported sample format (panic!) panic
\* on the main thread, which ends the process.
RunOutputFails ==
    /\ proc = "running" /\ mainPc = "run_output"
    /\ proc' = "exited" /\ mainPc' = "done"
    /\ UNCHANGED << synthPc, handler, eventVars, storeVars, renderVars, histVars, writeVars, readVars >>

\* run_output, then run_synth: std::thread::spawn returns at once.
RunOutputSpawns ==
    /\ proc = "running" /\ mainPc = "run_output"
    /\ synthPc' = "create" /\ mainPc' = "run_input"
    /\ UNCHANGED << proc, handler, eventVars, storeVars, renderVars, histVars, writeVars, readVars >>

\* run_input: port_name(..)? returns Err, or connect(..).unwrap() panics.
RunInputFails ==
    /\ proc = "running" /\ mainPc = "run_input"
    /\ proc' = "exited" /\ mainPc' = "done"
    /\ UNCHANGED << synthPc, handler, eventVars, storeVars, renderVars, histVars, writeVars, readVars >>

\* run_input: the connection is open and main waits for a line of input.
RunInputConnects ==
    /\ proc = "running" /\ mainPc = "run_input"
    /\ handler' = "open" /\ mainPc' = "wait_enter"
    /\ UNCHANGED << proc, synthPc, eventVars, storeVars, renderVars, histVars, writeVars, readVars >>

\* The user presses enter: run_input returns, dropping the connection (which
\* waits for a callback in flight), and main returns.
PressEnter ==
    /\ proc = "running" /\ mainPc = "wait_enter" /\ epc = "idle"
    /\ proc' = "exited" /\ mainPc' = "done" /\ handler' = "closed"
    /\ UNCHANGED << synthPc, eventVars, storeVars, renderVars, histVars, writeVars, readVars >>

\* ------------------------------------------------------------ synth thread

\* A panic of the thread run_synth spawned unwinds that thread alone.
SynthPanicLeaves == "panicked"

\* Mutant of SynthCreate: delay lines that exist are not zeroed, and the
\* feedback values are left as they are.
SynthCreateKeepsState ==
    /\ proc = "running" /\ synthPc = "create"
    /\ synthPc' = "build"
    /\ buffer' = [c \in Copies |->
                     IF buffer[c] = << >> THEN [k \in 1 .. DelaySamples |-> 0] ELSE buffer[c]]
    /\ di' = [c \in Copies |-> 1]
    /\ value' = value
    /\ bp_active' = [c \in Copies |-> FALSE]
    /\ attack_start' = 0
    /\ release_start' = -1
    /\ ticks' = 0
    /\ UNCHANGED << proc, mainPc, handler, eventVars, storeVars, rpc, vol_in, acc, sample,
                    histVars, writeVars, readVars >>

\* create_sound and sound.reset(Some(sample_rate)): the delay lines are
\* allocated and zeroed, adsr_live's cells are a = 0.0 and b = -1.0.
SynthCreate ==
    /\ proc = "running" /\ synthPc = "create"
    /\ synthPc' = "build"
    /\ buffer' = [c \in Copies |-> [k \in 1 .. DelaySamples |-> 0]]
    /\ di' = [c \in Copies |-> 1]
    /\ value' = [c \in Copies |-> 0]
    /\ bp_active' = [c \in Copies |-> FALSE]
    /\ attack_start' = 0
    /\ release_start' = -1
    /\ ticks' = 0
    /\ UNCHANGED << proc, mainPc, handler, eventVars, storeVars, rpc, vol_in, acc, sample,
                    histVars, writeVars, readVars >>

\* device.build_output_stream(..).unwrap()
SynthBuild ==
    /\ proc = "running" /\ synthPc = "build"
    /\ \E ok \in BOOLEAN : synthPc' = IF ok THEN "play" ELSE SynthPanicLeaves
    /\ UNCHANGED << proc, mainPc, handler, eventVars, storeVars, renderVars, histVars, writeVars, readVars >>

\* stream.play().unwrap(), then the sleep loop
SynthPlay ==
    /\ proc = "running" /\ synthPc = "play"
    /\ \E ok \in BOOLEAN : synthPc' = IF ok THEN "playing" ELSE SynthPanicLeaves
    /\ UNCHANGED << proc, mainPc, handler, eventVars, storeVars, renderVars, histVars, writeVars, readVars >>

\* ------------------------------------------------------------ event thread

\* History, kept from the messages alone: what the message m, now fully
\* processed, makes of (lastOn, offSince).
Processed(m) ==
    /\ lastOn' = IF m.kind = "NoteOn" THEN m.a ELSE lastOn
    /\ offSince' = IF m.kind = "NoteOn" THEN FALSE
                   ELSE IF m.kind = "NoteOff" /\ m.a = lastOn THEN TRUE
                   ELSE offSince

CallbackReady == proc = "running" /\ handler = "open" /\ epc = "idle"

\* The callback is entered with bytes from_midi decodes: (msg, _len) = ...unwrap().
Receive(m) ==
    /\ CallbackReady
    /\ m.kind # "Unparseable"
    /\ msg' = m
    /\ epc' = "dispatch"
    /\ UNCHANGED << threadVars, storeVars, renderVars, histVars, writeVars, readVars >>

\* The callback is entered with bytes from_midi returns Err for: unwrap()
\* panics.  In a callback thread of midir's own the panic unwinds that thread
\* and no later message is handled; in a callback the OS library calls, the
\* panic cannot unwind and aborts the process.
ReceiveUnparseable ==
    /\ CallbackReady
    /\ \E abort \in BOOLEAN :
          IF abort THEN proc' = "exited" /\ handler' = handler
                   ELSE handler' = "dead" /\ proc' = proc
    /\ UNCHANGED << mainPc, synthPc, eventVars, storeVars, renderVars, histVars, writeVars, readVars >>

\* Mutant of DispatchIgnored: any other message releases the note.
DispatchIgnoredAsOff ==
    /\ proc = "running" /\ epc = "dispatch"
    /\ msg.kind \in {"OtherVoice", "NonVoice"}
    /\ control' = 0 - One
    /\ epc' = "idle" /\ msg' = NoMsg
    /\ Processed(msg)
    /\ UNCHANGED << threadVars, pitch, volume, pitch_bend, renderVars, writeVars, readVars >>

\* `if let MidiMsg::ChannelVoice { .. } = msg` fails, or `_ => {}` is taken.
DispatchIgnored ==
    /\ proc = "running" /\ epc = "dispatch"
    /\ msg.kind \in {"OtherVoice", "NonVoice"}
    /\ epc' = "idle" /\ msg' = NoMsg
    /\ Processed(msg)
    /\ UNCHANGED << threadVars, storeVars, renderVars, writeVars, readVars >>

\* NoteOn: pitch.set_value(midi_hz(note as f64))
NoteOnPitch ==
    /\ proc = "running" /\ epc = "dispatch" /\ msg.kind = "NoteOn"
    /\ pitch' = MidiHz(msg.a)
    /\ epc' = "on_volume"
    /\ UNCHANGED << threadVars, msg, volume, pitch_bend, control, renderVars, histVars, writeVars, readVars >>

\* NoteOn: volume.set_value(velocity as f64 / 127.0)
NoteOnVolume ==
    /\ proc = "running" /\ epc = "on_volume"
    /\ volume' = VelocityToVolume(msg.b)
    /\ epc' = "on_bend"
    /\ volBy' = nEvents /\ volNew' = (VelocityToVolume(msg.b) # volume)
    /\ UNCHANGED << threadVars, msg, pitch, pitch_bend, control, renderVars, histVars,
                    ctlBy, onUnread, gateLost, readVars >>

\* NoteOn: pitch_bend.set_value(1.0)
NoteOnBend ==
    /\ proc = "running" /\ epc = "on_bend"
    /\ pitch_bend' = One
    /\ epc' = "on_control"
    /\ UNCHANGED << threadVars, msg, pitch, volume, control, renderVars, histVars, writeVars, readVars >>

\* The value NoteOn stores in control: control.set_value(1.0)
NoteOnGate == One

\* Mutant of NoteOnControl: the callback returns without the store to control.
NoteOnControlSkipsGate ==
    /\ proc = "running" /\ epc = "on_control"
    /\ epc' = "idle" /\ msg' = NoMsg
    /\ Processed(msg)
    /\ UNCHANGED << threadVars, storeVars, renderVars, writeVars, readVars >>

\* NoteOn: control.set_value(1.0); the callback returns.
NoteOnControl ==
    /\ proc = "running" /\ epc = "on_control"
    /\ control' = NoteOnGate
    /\ epc' = "idle" /\ msg' = NoMsg
    /\ Processed(msg)
    /\ ctlBy' = nEvents /\ onUnread' = TRUE /\ gateLost' = FALSE
    /\ UNCHANGED << threadVars, pitch, volume, pitch_bend, renderVars, volBy, volNew, readVars >>

\* Mutant of NoteOffMatches: every Note-Off releases.
NoteOffMatchesAlways(note) == TRUE

\* NoteOff: pitch.value() == midi_hz(note as f64)
NoteOffMatches(note) == pitch = MidiHz(note)

\* NoteOff: the comparison of line 160; when it fails the callback returns.
NoteOffCompare ==
    /\ proc = "running" /\ epc = "dispatch" /\ msg.kind = "NoteOff"
    /\ IF NoteOffMatches(msg.a)
          THEN epc' = "off_control" /\ msg' = msg /\ UNCHANGED histVars
          ELSE epc' = "idle" /\ msg' = NoMsg /\ Processed(msg)
    /\ UNCHANGED << threadVars, storeVars, renderVars, writeVars, readVars >>

\* Mutants of NoteOffGate: the 0.0 of the doc comment, and a 1.0.
NoteOffGateZero == Zero
NoteOffGateHigh == One

\* The value NoteOff stores in control: control.set_value(-1.0)
NoteOffGate == 0 - One

\* NoteOff: control.set_value(-1.0); the callback returns.
NoteOffControl ==
    /\ proc = "running" /\ epc = "off_control"
    /\ control' = NoteOffGate
    /\ epc' = "idle" /\ msg' = NoMsg
    /\ Processed(msg)
    /\ ctlBy' = nEvents /\ onUnread' = FALSE /\ gateLost' = (gateLost \/ onUnread)
    /\ UNCHANGED << threadVars, pitch, volume, pitch_bend, renderVars, volBy, volNew, readVars >>

\* PitchBend: pitch_bend.set_value(pitch_bend_factor(bend)); the callback returns.
PitchBendSet ==
    /\ proc = "running" /\ epc = "dispatch" /\ msg.kind = "PitchBend"
    /\ pitch_bend' = PitchBendFactor(msg.a)
    /\ epc' = "idle" /\ msg' = NoMsg
    /\ Processed(msg)
    /\ UNCHANGED << threadVars, pitch, volume, control, renderVars, writeVars, readVars >>

\* ------------------------------------------------------------ render thread

\* adsr_live(waveguide_length / 2., waveguide_length / 2., 0.0, 0.0)
AttackTime == WaveguideLength \div 2
DecayTime == WaveguideLength \div 2

\* Mutant of SustainLevel: the envelope holds at a half after the decay.
SustainLevelHalf == One \div 2

SustainLevel == Zero
ReleaseTime == Zero

\* fundsp's ads(attack, decay, sustain, time): lerp(0, 1, time / attack), then
\* lerp(1, sustain, decay_time / decay), then sustain.
Ads(attack, decay, sustain, time) ==
    IF time < attack
        THEN (time * One) \div attack
        ELSE IF time - attack < decay
                THEN One - (((One - sustain) * (time - attack)) \div decay)
                ELSE sustain

\* clamp01(delerp(release_start + release, release_start, time)), where
\* delerp(a, b, x) = (x - a) / (b - a).  With release = 0.0 the divisor is 0.0:
\* x / 0.0 is +inf for x > 0 (clamped to 1) and 0.0 / 0.0 is NaN, which
\* max(0.0) turns into 0.
ReleaseGain(rstart, release, time) ==
    LET num == time - (rstart + release)
        den == rstart - (rstart + release)
        q   == IF den < 0 THEN ((0 - num) * One) \div (0 - den)
                          ELSE (num * One) \div den
    IN  IF den = 0 THEN (IF num > 0 THEN One ELSE Zero)
        ELSE IF q < Zero THEN Zero ELSE IF q > One THEN One ELSE q

\* The closure adsr_live gives envelope2, at `time` with input `ctl`: the new
\* attack_start and release_start and the envelope's value.
AdsrLive(time, ctl) ==
    LET retrig == release_start >= 0 /\ ctl > 0
        rel    == (~retrig) /\ release_start < 0 /\ ctl <= 0
        a      == IF retrig THEN time ELSE attack_start
        r      == IF retrig THEN -1 ELSE IF rel THEN time ELSE release_start
        adsv   == Ads(AttackTime, DecayTime, SustainLevel, time - a)
    IN  [ a |-> a, r |-> r, attacked |-> retrig,
          out |-> IF r < 0 THEN adsv
                  ELSE (adsv * ReleaseGain(r, ReleaseTime, time)) \div One ]

\* Mutant of Impulse: the volume factor left out.
ImpulseUngated(vol, env) == env

\* Mutant of Impulse: the excitation scaled by the pitch bend.
ImpulseBent(vol, env) == (((((One * vol) \div One) * env) \div One) * pitch_bend) \div One

\* impulse = dc(1.0) * var(&volume) * (var(&control) >> adsr_live(..))
Impulse(vol, env) == (((One * vol) \div One) * env) \div One

\* feedback_gain = mul(0.995)
FeedbackGain(x) == (x * 995) \div 1000

\* The message a (volume, control) pair read by one copy is torn of, 0 if none.
\* vw wrote the volume read, vin, and vnew says it replaced another value; cw
\* wrote the control read, ctl.  A Note-On writes both cells (and a control
\* > 0), a Note-Off control alone.  The pair is torn of vw when it has vw's
\* volume, another than the one replaced, with an older control, and of the
\* Note-On cw when it has cw's control with an older volume, another than
\* cw's.
TornOf(vw, vin, vnew, cw, ctl) ==
    IF vw > cw /\ vnew THEN vw
    ELSE IF ctl > 0 /\ vw < cw /\ volBy = cw /\ vin # volume THEN cw
    ELSE 0

\* Mutant of RenderReady: the render thread waits for the callback to return.
RenderReadyWhenIdle == proc = "running" /\ synthPc = "playing" /\ epc = "idle"

\* The audio callback runs whenever the stream plays: no lock is taken.
RenderReady == proc = "running" /\ synthPc = "playing"

\* var(&volume): one atomic load of the cell.
VarVolume == volume

\* One copy of the graph, first half: var(&volume) is ticked.
RenderReadVolume ==
    /\ RenderReady /\ rpc.at = "volume"
    /\ vol_in' = VarVolume
    /\ rpc' = [rpc EXCEPT !.at = "control"]
    /\ volReadBy' = volBy /\ volReadNew' = volNew
    /\ seenVolume' = (seenVolume \/ vol_in' > 0)
    /\ tickDone' = IF rpc.copy = 1
                      THEN (IF epc = "idle" THEN nEvents ELSE nEvents - 1)
                      ELSE tickDone
    /\ UNCHANGED << threadVars, eventVars, storeVars, ticks, attack_start, release_start,
                    buffer, di, value, bp_active, acc, sample, histVars, writeVars,
                    seenOnLost, tornNow, tornOnce, tornTwice, tornLate >>

\* var(&control): one atomic load of the cell.
VarControl == control

\* One copy of the graph, second half: var(&control) is ticked, then the
\* envelope, the product, the delay loop Feedback2(delay, mul) and, in the
\* copies of the harmonics, the band-pass filter; after the last copy
\* get_stereo() returns the sum and time advances by one sample.
RenderReadControl ==
    /\ RenderReady /\ rpc.at = "control"
    /\ LET c    == rpc.copy
           ctl  == VarControl
           env  == AdsrLive(ticks * SampleDuration, ctl)
           x    == Impulse(vol_in, env.out) + value[c]
           out  == buffer[c][di[c]]
           bp   == IF c = 1 THEN FALSE ELSE (bp_active[c] \/ out # 0)
           sum  == [dry |-> IF c = 1 THEN out ELSE acc.dry, wet |-> acc.wet \/ bp]
           torn == TornOf(volReadBy, vol_in, volReadNew, ctlBy, ctl)
           now  == IF torn = 0 THEN tornNow ELSE tornNow \cup {torn}
       IN  /\ attack_start' = env.a
           /\ release_start' = env.r
           /\ buffer' = [buffer EXCEPT ![c][di[c]] = x]
           /\ di' = [di EXCEPT ![c] = (di[c] % DelaySamples) + 1]
           /\ value' = [value EXCEPT ![c] = FeedbackGain(out)]
           /\ bp_active' = [bp_active EXCEPT ![c] = bp]
           /\ onUnread' = FALSE
           /\ seenOnLost' = (seenOnLost \/ (gateLost /\ (ctl > 0 \/ env.attacked)))
           /\ tornLate' = (tornLate \/ (torn # 0 /\ torn <= tickDone))
           /\ IF c = PluckCopies
                 THEN /\ sample' = sum
                      /\ acc' = [dry |-> 0, wet |-> FALSE]
                      /\ ticks' = ticks + 1
                      /\ rpc' = [copy |-> 1, at |-> "volume"]
                      /\ tornNow' = {}
                      /\ tornOnce' = tornOnce \cup now
                      /\ tornTwice' = tornTwice \cup (tornOnce \cap now)
                 ELSE /\ acc' = sum
                      /\ rpc' = [copy |-> c + 1, at |-> "volume"]
                      /\ tornNow' = now
                      /\ UNCHANGED << sample, ticks, tornOnce, tornTwice >>
    /\ UNCHANGED << threadVars, eventVars, storeVars, vol_in, histVars, volBy, volNew, ctlBy,
                    gateLost, volReadBy, volReadNew, seenVolume, tickDone >>

\* ----------------------------------------------------------- specification

\* The step enters the callback: Receive, or ReceiveUnparseable's two outcomes.
Delivered ==
    \/ epc = "idle" /\ epc' = "dispatch"
    \/ handler = "open" /\ handler' = "dead"
    \/ proc = "running" /\ proc' = "exited" /\ mainPc' # "done"

\* The messages are numbered and the kind of the last one handled recorded.
Numbered ==
    /\ nEvents' = IF Delivered THEN nEvents + 1 ELSE nEvents
    /\ doneKind' = IF epc # "idle" /\ epc' = "idle" THEN msg.kind ELSE doneKind

\* Spec numbers the messages; it is one run and keeps no log of it.
Count == Numbered /\ UNCHANGED << runVars, devVars >>

\* One step of one thread, with the messages delivered and the samples
\* rendered bounded.
Next ==
    \/ RunOutputFails /\ Count
    \/ RunOutputSpawns /\ Count
    \/ RunInputFails /\ Count
    \/ RunInputConnects /\ Count
    \/ PressEnter /\ Count
    \/ SynthCreate /\ Count
    \/ SynthBuild /\ Count
    \/ SynthPlay /\ Count
    \/ nEvents < MaxEvents /\ (\E m \in Messages : Receive(m)) /\ Count
    \/ nEvents < MaxEvents /\ ReceiveUnparseable /\ Count
    \/ DispatchIgnored /\ Count
    \/ NoteOnPitch /\ Count
    \/ NoteOnVolume /\ Count
    \/ NoteOnBend /\ Count
    \/ NoteOnControl /\ Count
    \/ NoteOffCompare /\ Count
    \/ NoteOffControl /\ Count
    \/ PitchBendSet /\ Count
    \/ ticks < MaxTicks /\ RenderReadVolume /\ Count
    \/ ticks < MaxTicks /\ RenderReadControl /\ Count

Spec == Init /\ [][Next]_vars

\* The event thread alone, on every note and velocity: the connection is open
\* and the thread run_synth spawned has not been scheduled yet.
InitEvents ==
    /\ proc = "running"
    /\ mainPc = "wait_enter"
    /\ synthPc = "create"
    /\ handler = "open"
    /\ epc = "idle"
    /\ msg = NoMsg
    /\ pitch = InitPitch
    /\ volume = InitVolume
    /\ pitch_bend = InitPitchBend
    /\ control = InitControl
    /\ rpc = [copy |-> 1, at |-> "volume"]
    /\ vol_in = 0
    /\ ticks = 0
    /\ attack_start = 0
    /\ release_start = -1
    /\ buffer = [c \in Copies |-> << >>]
    /\ di = [c \in Copies |-> 1]
    /\ value = [c \in Copies |-> 0]
    /\ bp_active = [c \in Copies |-> FALSE]
    /\ acc = [dry |-> 0, wet |-> FALSE]
    /\ sample = [dry |-> 0, wet |-> FALSE]
    /\ nEvents = 0
    /\ lastOn = -1
    /\ offSince = FALSE
    /\ doneKind = "None"
    /\ volBy = 0
    /\ ctlBy = 0
    /\ volNew = FALSE
    /\ volReadBy = 0
    /\ volReadNew = FALSE
    /\ onUnread = FALSE
    /\ gateLost = FALSE
    /\ seenOnLost = FALSE
    /\ seenVolume = FALSE
    /\ tickDone = 0
    /\ tornNow = {}
    /\ tornOnce = {}
    /\ tornTwice = {}
    /\ tornLate = FALSE
    /\ pass = 1
    /\ sched1 = << >> /\ sched2 = << >>
    /\ stream1 = << >> /\ stream2 = << >>
    /\ excite = << >>
    /\ InitNoDevice

Quiet == UNCHANGED << nEvents, doneKind, runVars, devVars >>

NextEvents ==
    \/ (\E m \in WideMessages : Receive(m)) /\ Quiet
    \/ ReceiveUnparseable /\ Quiet
    \/ DispatchIgnored /\ Quiet
    \/ NoteOnPitch /\ Quiet
    \/ NoteOnVolume /\ Quiet
    \/ NoteOnBend /\ Quiet
    \/ NoteOnControl /\ Quiet
    \/ NoteOffCompare /\ Quiet
    \/ NoteOffControl /\ Quiet
    \/ PitchBendSet /\ Quiet

SpecEvents == InitEvents /\ [][NextEvents]_vars

\* --------------------------------------------- two runs on one schedule

\* SpecRuns runs the pipeline twice.  Each run is given its messages between
\* two samples, each handled to its end before the next sample, and is logged:
\* the messages with the number of the sample they came before, and the
\* samples.  The second run is given the messages of the first other than
\* Pitch-Bends, before the same samples, and Pitch-Bends of its own.  It
\* starts from the memory the first run left, so that what main, create_sound
\* and reset initialise is what makes the two starts alike.
RunMessages == {NoteOn(69, 127), NoteOff(69, 64), PitchBend(16383)}

InitRuns == InitEvents

\* No sample is being rendered.
Between == rpc = [copy |-> 1, at |-> "volume"]

Voiced(sched) == SelectSeq(sched, LAMBDA e : e.msg.kind # "PitchBend")

SchedNow == IF pass = 1 THEN sched1 ELSE sched2

\* The messages of the first run, Pitch-Bends apart, the second is still to get.
Due ==
    LET v1 == Voiced(sched1)
        v2 == Voiced(sched2)
    IN  SubSeq(v1, Len(v2) + 1, Len(v1))

RunReceive(m) ==
    /\ RenderReady /\ Between /\ ticks < RunTicks
    /\ Len(SchedNow) + (IF pass = 2 /\ m.kind = "PitchBend" THEN Len(Due) ELSE 0) < RunEvents
    /\ IF pass = 2 /\ m.kind # "PitchBend"
          THEN IF Len(Due) > 0 THEN Head(Due) = [tick |-> ticks, msg |-> m] ELSE FALSE
          ELSE TRUE
    /\ Receive(m)

RunRenderReady ==
    /\ epc = "idle" /\ ticks < RunTicks
    /\ IF pass = 2 /\ Between /\ Len(Due) > 0 THEN Head(Due).tick > ticks ELSE TRUE

\* Each run's log.
RunLog ==
    /\ Numbered
    /\ pass' = pass
    /\ LET got == IF epc = "idle" /\ epc' = "dispatch"
                      THEN << [tick |-> ticks, msg |-> msg'] >> ELSE << >>
           out == IF ticks' = ticks + 1 THEN << sample' >> ELSE << >>
       IN  /\ sched1' = IF pass = 1 THEN sched1 \o got ELSE sched1
           /\ sched2' = IF pass = 2 THEN sched2 \o got ELSE sched2
           /\ stream1' = IF pass = 1 THEN stream1 \o out ELSE stream1
           /\ stream2' = IF pass = 2 THEN stream2 \o out ELSE stream2
    /\ UNCHANGED << excite, devVars >>

\* The first run is over and the second begins: main makes the four cells
\* anew and run_synth's thread starts at create_sound.
Restart ==
    /\ pass = 1 /\ ticks = RunTicks /\ epc = "idle" /\ RenderReady
    /\ pass' = 2
    /\ pitch' = InitPitch /\ volume' = InitVolume
    /\ pitch_bend' = InitPitchBend /\ control' = InitControl
    /\ synthPc' = "create"
    /\ nEvents' = 0 /\ doneKind' = "None" /\ lastOn' = -1 /\ offSince' = FALSE
    /\ volBy' = 0 /\ ctlBy' = 0 /\ volNew' = FALSE /\ onUnread' = FALSE /\ gateLost' = FALSE
    /\ volReadBy' = 0 /\ volReadNew' = FALSE /\ seenOnLost' = FALSE /\ seenVolume' = FALSE
    /\ tickDone' = 0 /\ tornNow' = {} /\ tornOnce' = {} /\ tornTwice' = {} /\ tornLate' = FALSE
    /\ UNCHANGED << proc, mainPc, handler, eventVars, renderVars, sched1, sched2, stream1, stream2,
                    excite, devVars >>

NextRuns ==
    \/ SynthCreate /\ RunLog
    \/ SynthBuild /\ RunLog
    \/ SynthPlay /\ RunLog
    \/ (\E m \in RunMessages : RunReceive(m)) /\ RunLog
    \/ NoteOnPitch /\ RunLog
    \/ NoteOnVolume /\ RunLog
    \/ NoteOnBend /\ RunLog
    \/ NoteOnControl /\ RunLog
    \/ NoteOffCompare /\ RunLog
    \/ NoteOffControl /\ RunLog
    \/ PitchBendSet /\ RunLog
    \/ RunRenderReady /\ RenderReadVolume /\ RunLog
    \/ RunRenderReady /\ RenderReadControl /\ RunLog
    \/ Restart

SpecRuns == InitRuns /\ [][NextRuns]_vars

\* ------------------------------------------------- the string over time

\* SpecString is one run over more samples: the messages come between two
\* samples and are handled whole, and the run is logged as in SpecRuns,
\* with the impulse that entered the delay loop of the pluck at each sample.
StringMessages == {NoteOn(69, 127), NoteOn(72, 64), NoteOff(69, 64)}

InitString == InitEvents

StringReceive(m) ==
    /\ RenderReady /\ Between /\ ticks < StringTicks
    /\ Len(sched1) < StringEvents
    /\ Receive(m)

StringRenderReady == epc = "idle" /\ ticks < StringTicks

\* What the first copy (the pluck itself) fed its delay loop in this step:
\* Feedback2 hands the delay the impulse plus its feedback value.
Fed == buffer'[1][di[1]] - value[1]

StringLog ==
    /\ Numbered
    /\ LET got == IF epc = "idle" /\ epc' = "dispatch"
                      THEN << [tick |-> ticks, msg |-> msg'] >> ELSE << >>
           out == IF ticks' = ticks + 1 THEN << sample' >> ELSE << >>
           imp == IF RenderReady /\ rpc = [copy |-> 1, at |-> "control"] /\ rpc' # rpc
                      THEN << Fed >> ELSE << >>
       IN  /\ sched1' = sched1 \o got
           /\ stream1' = stream1 \o out
           /\ excite' = excite \o imp
    /\ UNCHANGED << pass, sched2, stream2, devVars >>

NextString ==
    \/ SynthCreate /\ StringLog
    \/ SynthBuild /\ StringLog
    \/ SynthPlay /\ StringLog
    \/ (\E m \in StringMessages : StringReceive(m)) /\ StringLog
    \/ NoteOnPitch /\ StringLog
    \/ NoteOnVolume /\ StringLog
    \/ NoteOnBend /\ StringLog
    \/ NoteOnControl /\ StringLog
    \/ NoteOffCompare /\ StringLog
    \/ NoteOffControl /\ StringLog
    \/ StringRenderReady /\ RenderReadVolume /\ StringLog
    \/ StringRenderReady /\ RenderReadControl /\ StringLog

SpecString == InitString /\ [][NextString]_vars

\* ------------------------------------------- the device and write_data

\* SpecDevice is the part of the program that depends on the configuration:
\* the string's length (the static of line 21, which line 18 invites to
\* change) and the device's config (sample rate, channels, sample format).
\* It constructs the delay line, starts the stream and runs the audio callback
\* once, write_data filling a buffer of any length frame by frame.
Lengths == {0, 1, STRING_LENGTH}
Rates == {SampleRate, 44100, 48000}
Formats == {"F32", "I16", "U16"}

InitDevice ==
    /\ InitProgram
    /\ dev \in [length : Lengths, rate : Rates, channels : 1 .. MaxChannels, format : Formats]
    /\ devPc = "new"
    /\ devN = 0
    /\ output = << >>
    /\ wpos = 1
    /\ calls = 0

\* create_sound and reset for this configuration: delay(waveguide_length) is
\* built and sized; nothing in lines 69-72 or 220-222 looks at the length.
DeviceConstruct ==
    /\ devPc = "new"
    /\ devN' = DelayLength(WaveguideLengthOf(dev.length), dev.rate)
    /\ devPc' = "built"
    /\ UNCHANGED << dev, output, wpos, calls, progVars >>

\* build_output_stream and play succeed.
DeviceStreams ==
    /\ devPc = "built"
    /\ devPc' = "streaming"
    /\ UNCHANGED << dev, devN, output, wpos, calls, progVars >>

\* The device calls the data callback with a buffer of some length.
CallbackBegins ==
    /\ devPc = "streaming"
    /\ \E len \in 0 .. MaxSlots : output' = [i \in 1 .. len |-> Stale]
    /\ wpos' = 1
    /\ calls' = 0
    /\ devPc' = "writing"
    /\ UNCHANGED << dev, devN, progVars >>

\* What the k-th call of next_sample returns: write_data takes any closure,
\* here one whose left and right samples differ from each other and from call
\* to call.
NextSample(k) == [left |-> (2500 * k) - One, right |-> (2500 * k) - One + 1250]

\* x * 32768 / One, truncated towards zero as Rust's `as` truncates.
Scaled(x) == IF x < 0 THEN 0 - (((0 - x) * 32768) \div One) ELSE (x * 32768) \div One

Clamp(x, lo, hi) == IF x < lo THEN lo ELSE IF x > hi THEN hi ELSE x

\* T::from_sample(x) for T = f32, i16, u16: f32 rounds to 24 bits, below the
\* resolution of the model; i16 is (x * 32768.0) as i16 and u16 is
\* ((x + 1.0) * 32768.0) as u16, `as` saturating.
FromSample(format, x) ==
    IF format = "I16" THEN Clamp(Scaled(x), 0 - 32768, 32767)
    ELSE IF format = "U16" THEN Clamp(Scaled(x + One), 0, 65535)
    ELSE x

\* Mutant of ChannelSample: left to the first channel only.
ChannelSampleStereo(channel, smp) == IF channel = 0 THEN smp.left ELSE smp.right

\* if channel & 1 == 0 { left } else { right }
ChannelSample(channel, smp) == IF channel % 2 = 0 THEN smp.left ELSE smp.right

\* One turn of `for frame in output.chunks_mut(channels)`: next_sample is
\* called, and each slot of the frame gets the left or the right sample.
WriteFrame ==
    /\ devPc = "writing" /\ wpos <= Len(output)
    /\ LET smp == NextSample(calls + 1)
           hi  == IF wpos + dev.channels - 1 > Len(output)
                     THEN Len(output) ELSE wpos + dev.channels - 1
       IN  output' = [i \in 1 .. Len(output) |->
                         IF i >= wpos /\ i <= hi
                            THEN FromSample(dev.format, ChannelSample(i - wpos, smp))
                            ELSE output[i]]
    /\ wpos' = wpos + dev.channels
    /\ calls' = calls + 1
    /\ UNCHANGED << dev, devPc, devN, progVars >>

\* chunks_mut is exhausted and write_data returns.
CallbackReturns ==
    /\ devPc = "writing" /\ wpos > Len(output)
    /\ devPc' = "returned"
    /\ UNCHANGED << dev, devN, output, wpos, calls, progVars >>

NextDevice ==
    \/ DeviceConstruct
    \/ DeviceStreams
    \/ CallbackBegins
    \/ WriteFrame
    \/ CallbackReturns

SpecDevice == InitDevice /\ [][NextDevice]_vars

\* ------------------------------------------------------------------ claims

\* C1: processing Note-On(note, velocity) from any store state leaves
\* pitch = 440 * 2^((note - 69) / 12), volume = velocity / 127, pitch_bend = 1.0
\* and control = 1.0: note 69 gives 440 Hz, note 57 gives 220 Hz, a note
\* twelve above another has twice its pitch (to the last digit), and
\* velocity 127 gives volume 1.0.
C1_NoteOnSetsStore ==
    [][(epc = "on_control" /\ epc' = "idle") =>
          /\ pitch' = MidiHz(msg.a)
          /\ (msg.a = 69 => pitch' = 440 * One)
          /\ (msg.a = 57 => pitch' = 220 * One)
          /\ (msg.a >= 12 => pitch' - 2 * MidiHz(msg.a - 12) \in {0, 1})
          /\ volume' = (msg.b * One) \div 127
          /\ (msg.b = 127 => volume' = One)
          /\ pitch_bend' = One
          /\ control' = One]_vars

C1_Witness ==
    /\ epc = "idle" /\ lastOn = 69
    /\ pitch = 440 * One /\ volume = One /\ pitch_bend = One /\ control = One

C4_CoalescedNoteOnNeverSeen ==
    /\ ~seenOnLost
    /\ gateLost => control = 0 - One

\* Both messages returned before the current sample began, and its first copy
\* has read control since.
C4_Witness ==
    /\ gateLost /\ epc = "idle" /\ tickDone = nEvents
    /\ ticks >= 1 /\ rpc.copy >= 2

\* C5 as stated: no message has a torn (volume, control) pair read by more
\* than one sample.
C5_TornOnAtMostOneSample == tornTwice = {}

\* C5 as amended: a sample that began after a message's callback returned
\* reads no torn pair of that message.
C5_NoTornAfterReturn == ~tornLate

\* A message had a torn pair read, and a sample that began after it returned
\* has read five copies' pairs.
C5_Witness ==
    \E e \in tornOnce : tickDone >= e /\ rpc.copy = PluckCopies

\* C6: Pitch-Bend(bend) stores 2^(((bend - 8192) / 8192) / 12) in pitch_bend:
\* exactly 1.0 at 8192, 2^(1/12) = 1.0595 at 16383 and 2^(-1/12) = 0.9439 at
\* 0 (to three units of 0.0001); pitch, volume and control are unchanged.
C6_PitchBendSetsFactor ==
    [][(epc = "dispatch" /\ msg.kind = "PitchBend" /\ epc' # "dispatch") =>
          /\ (msg.a = 8192 => pitch_bend' = One)
          /\ (msg.a = 16383 => pitch_bend' \in 10592 .. 10598)
          /\ (msg.a = 0 => pitch_bend' \in 9436 .. 9442)
          /\ (msg.a < 8192 <=> pitch_bend' < One)
          /\ pitch' = pitch /\ volume' = volume /\ control' = control
          /\ epc' = "idle"]_vars

C6_Witness ==
    /\ epc = "idle" /\ pitch_bend > One
    /\ pitch = 440 * One /\ volume = One /\ control = One

\* C7: a message of any other kind changes no cell, and the callback is ready
\* for the next message.
C7_OtherKindsIgnored ==
    [][(epc = "dispatch" /\ msg.kind \in {"OtherVoice", "NonVoice"} /\ epc' # "dispatch") =>
          /\ storeVars' = storeVars
          /\ CallbackReady']_vars

C7_Witness ==
    /\ doneKind = "NonVoice" /\ epc = "idle" /\ CallbackReady
    /\ control = One /\ pitch = 440 * One

\* C8 as stated: an unparseable message is dropped; the callback lives on and
\* the process does not end in it.
C8_UnparseableDropped ==
    /\ handler # "dead"
    /\ proc = "exited" => mainPc = "done"

\* C9 as stated: in no state has the stream failed to build or start while the
\* process runs and takes MIDI messages.
C9_StreamFailureFatal ==
    ~(synthPc = "panicked" /\ proc = "running" /\ handler = "open")

Silent ==
    /\ sample = [dry |-> 0, wet |-> FALSE]
    /\ acc = [dry |-> 0, wet |-> FALSE]
    /\ \A c \in Copies :
          /\ value[c] = 0
          /\ ~bp_active[c]
          /\ \A k \in DOMAIN buffer[c] : buffer[c][k] = 0

\* C10: before any write the cells hold pitch 0, volume 0, pitch_bend 1,
\* control 0, and until a render read sees a volume > 0 the impulse, the delay
\* lines, the filters and every sample are 0.
C10_SilentUntilVolumeSeen ==
    /\ nEvents = 0 =>
          pitch = Zero /\ volume = Zero /\ pitch_bend = One /\ control = Zero
    /\ volBy = 0 => volume = Zero
    /\ ctlBy = 0 => control = Zero
    /\ ~seenVolume => Silent

\* A Note-On of velocity 0 returned before the current sample began; two
\* samples are out, past the envelope's peak.
C10_Witness ==
    /\ ~seenVolume /\ ticks >= 2
    /\ doneKind = "NoteOn" /\ control = One /\ tickDone >= 1

\* C11: once create_sound and reset have run, every delay line has
\* round(T * sampleRate) samples, T = 2 * length / sqrt(tension / density),
\* and no step of the event thread, the render thread or the main thread
\* changes that length.
C11_DelayLengthFixed ==
    [][(synthPc \notin {"none", "create"}) =>
          \A c \in Copies :
              /\ Len(buffer[c]) = (WaveguideLength * SampleRate + 500000) \div 1000000
              /\ Len(buffer'[c]) = Len(buffer[c])]_vars

\* A Note-On and a Pitch-Bend have been handled and a sample rendered since
\* the lines were allocated.
C11_Witness ==
    /\ synthPc = "playing" /\ ticks >= 1 /\ epc = "idle"
    /\ lastOn # -1 /\ doneKind = "PitchBend" /\ pitch_bend # One
    /\ \A c \in Copies : Len(buffer[c]) = 2

\* C12: a second run given the Note-Ons and Note-Offs of the first before the
\* same samples, and other Pitch-Bends (or none), returns the samples the
\* first returned.
C12_StreamIgnoresPitchBend ==
    pass = 2 => \A i \in 1 .. Len(stream2) : stream2[i] = stream1[i]

\* Both runs are over, a note sounded, and the runs differ in their
\* Pitch-Bends.
C12_Witness ==
    /\ pass = 2 /\ Len(stream2) = RunTicks
    /\ Voiced(sched2) = Voiced(sched1) /\ sched2 # sched1
    /\ \E i \in 1 .. Len(stream2) : stream2[i].dry # 0

\* C13 as stated: the loop period is the delay length N: when no impulse has
\* entered the loop from sample t on, the output N samples after t is the
\* output at t times the feedback gain.
C13_PeriodIsDelayLength ==
    \A t \in 1 .. Len(stream1) :
        LET u == t + DelaySamples
        IN  (u <= Len(stream1) /\ \A k \in t .. u : excite[k] = 0) =>
                stream1[u].dry = FeedbackGain(stream1[t].dry)

\* C14 as stated: a configuration whose round(T * sampleRate) is 0 is rejected
\* when the graph is constructed: its delay line is never built, and no
\* stream runs on it.
C14_ZeroLengthRejected ==
    RoundSamples(WaveguideLengthOf(dev.length), dev.rate) = 0 => devPc = "new"

C16_NoteOnRestartsAttack ==
    [][(rpc.at = "control" /\ rpc' # rpc /\ onUnread /\ control > Zero /\ volume > Zero) =>
          attack_start' = ticks * SampleDuration]_vars

\* C17: when write_data returns, the render closure has been called once per
\* frame, a shorter final chunk included (the number of frames is the buffer
\* length divided by the channel count, rounded up); every slot is written,
\* the slot of an even channel index with the converted left sample of its
\* frame's call and the slot of an odd channel index with the converted right
\* sample, for any channel count and any buffer length.
C17_OneCallPerFrame ==
    devPc = "returned" =>
        /\ calls = (Len(output) + dev.channels - 1) \div dev.channels
        /\ \A i \in 1 .. Len(output) :
              LET frame   == ((i - 1) \div dev.channels) + 1
                  channel == (i - 1) % dev.channels
              IN  /\ output[i] # Stale
                  /\ output[i] = FromSample(dev.format,
                                     IF channel % 2 = 0 THEN NextSample(frame).left
                                                        ELSE NextSample(frame).right)

\* write_data has returned from a three-channel buffer of five slots: two
\* calls, the second for a final chunk of two slots.
C17_Witness ==
    /\ devPc = "returned" /\ dev.channels = 3 /\ Len(output) = 5 /\ calls = 2
    /\ dev.format = "I16"

\* C18: the excitation fed to the delay loop is non-zero only at a sample less
\* than one round-trip time after the start of the attack the envelope is in,
\* so it is 0 from then on, also while the note is held; and a sample of the
\* pluck's loop that no excitation feeds is 0.995 of the loop's output one
\* trip of the loop before, strictly smaller while that is positive, so the
\* string left alone dies away.
C18_ExcitationWithinRoundTrip ==
    /\ Len(excite) > 0 /\ excite[Len(excite)] # 0 =>
          LET time == (Len(excite) - 1) * SampleDuration
          IN  attack_start <= time /\ time - attack_start < WaveguideLength
    /\ \A u \in 1 .. Len(stream1) :
          LET fed  == u - DelaySamples
              back == fed - 1
          IN  (back >= 1 /\ excite[fed] = 0) =>
                  /\ stream1[u].dry = FeedbackGain(stream1[back].dry)
                  /\ stream1[back].dry > 0 => stream1[u].dry < stream1[back].dry

\* A note struck before the first sample and held to the end of the run: the
\* excitation was non-zero at the second sample alone, and the string sounds
\* fainter at each return of the pulse.
C18_Witness ==
    /\ Len(stream1) = StringTicks /\ control = One /\ release_start < 0
    /\ excite[2] # 0 /\ \A k \in 3 .. Len(excite) : excite[k] = 0
    /\ stream1[4].dry > stream1[7].dry /\ stream1[7].dry > stream1[10].dry
    /\ stream1[10].dry > 0

\* C19: a cell of the Parameter Store changes only in a step of the event
\* thread inside its callback, a step that is no render step; a render step
\* leaves the four cells as they are and takes of them the volume (first
\* half) or the control (second half) alone; and while the stream plays a
\* render step is enabled wherever the event thread is, inside an event or not.
C19_RenderOnlyReads ==
    [][/\ storeVars' # storeVars =>
             epc # "idle" /\ proc = "running" /\ renderVars' = renderVars
       /\ rpc' # rpc =>
             /\ storeVars' = storeVars /\ epc' = epc /\ msg' = msg
             /\ rpc.at = "volume" => vol_in' = volume
       /\ (proc = "running" /\ synthPc = "playing") =>
             ENABLED (RenderReadVolume \/ RenderReadControl)]_vars

\* The render thread has read the volume a Note-On stored while that Note-On
\* is still inside the callback, its control not yet stored.
C19_Witness ==
    /\ epc = "on_control" /\ msg.kind = "NoteOn"
    /\ rpc.at = "control" /\ volReadBy = nEvents /\ vol_in = volume /\ volume > Zero
    /\ control = Zero

====
